---- MODULE Spec2Model ----
(***************************************************************************)
(* Model of boleto.js (src/src/boleto.js): the modulo-11 checksum, the     *)
(* Boleto class (constructor, valid, barcode, number, prettyNumber, bank,  *)
(* currency, checksum, expirationDate, amount, prettyAmount, toSVG) and    *)
(* the two collaborators toSVG delegates to (ITF.encode, SVG#render).      *)
(*                                                                         *)
(* A JavaScript string is a sequence of one-character strings; an Array of *)
(* characters is the same kind of sequence, but it is passed by reference, *)
(* so an operation that changes it in place reports the array's new        *)
(* contents next to its return value.                                      *)
(***************************************************************************)
EXTENDS Integers, Sequences, FiniteSets, TLC

VARIABLES
  input,        \* the string handed to `new Boleto(...)`
  boleto,       \* <<>> while no instance exists, <<[bankSlipNumber |-> s]>> once constructed
  thrown,       \* the error that reached the caller of the last operation, or "none"
  pc,           \* "start" before construction, "live" with an instance, "failed" after a throw
  ncalls,       \* number of method calls made on the instance
  lastCall,     \* [name, ret] of the last method call on the instance
  firstRet,     \* for each accessor already called, the value its first call returned
  svgLog,       \* collaborator calls made by the last toSVG call, in order
  svgRaised,    \* the error a collaborator raised during the last toSVG call, or "none"
  otherInput,   \* the string handed to a second `new Boleto(...)`
  other,        \* the second instance, like boleto
  otherThrown,  \* the error the second construction threw, or "none"
  otherPc,      \* "start", "live" or "failed" for the second construction
  number,       \* the argument of modulo11: [kind |-> "string" | "array", chars |-> ...]
  original,     \* the contents of that argument before the first call
  results       \* the values modulo11 returned, in call order

vars == <<input, boleto, thrown, pc, ncalls, lastCall, firstRet, svgLog, svgRaised,
          otherInput, other, otherThrown, otherPc, number, original, results>>

boletoVars == <<input, boleto, thrown, pc, ncalls, lastCall, firstRet, svgLog, svgRaised>>
otherVars  == <<otherInput, other, otherThrown, otherPc>>
modVars    == <<number, original, results>>

----------------------------------------------------------------------------
(* Characters and the conversions JavaScript applies to them.              *)

DigitChars == {"0", "1", "2", "3", "4", "5", "6", "7", "8", "9"}

\* The one-character strings Number(c) turns into a number; any other gives NaN.
Numeric == DigitChars \cup {" "}

\* Number(c) for a numeric one-character string, the coercion `*` applies in
\* modulo11 (a blank is 0).
Num(c) ==
  CASE c = "0" -> 0 [] c = "1" -> 1 [] c = "2" -> 2 [] c = "3" -> 3 [] c = "4" -> 4
    [] c = "5" -> 5 [] c = "6" -> 6 [] c = "7" -> 7 [] c = "8" -> 8 [] c = "9" -> 9
    [] c = " " -> 0

\* Number.prototype.toString for a one-digit number.
NumToString(n) ==
  CASE n = 0 -> "0" [] n = 1 -> "1" [] n = 2 -> "2" [] n = 3 -> "3" [] n = 4 -> "4"
    [] n = 5 -> "5" [] n = 6 -> "6" [] n = 7 -> "7" [] n = 8 -> "8" [] n = 9 -> "9"

\* String.prototype.substr(start, length), start 0-based, clipped to the string.
substr(s, start, len) ==
  LET last == IF start + len > Len(s) THEN Len(s) ELSE start + len
  IN  IF start >= Len(s) THEN <<>> ELSE SubSeq(s, start + 1, last)

\* Array.prototype.reverse: the contents of the array after the call.
reverse(a) == [i \in 1..Len(a) |-> a[Len(a) + 1 - i]]

\* Array.prototype.splice(start, 1): the removed elements and what is left.
splice1(a, start) ==
  [removed |-> substr(a, start, 1),
   rest    |-> substr(a, 0, start) \o substr(a, start + 1, Len(a))]

\* Variant: the `|| 1` fallback left out.
OrElseKeepZero(x, y) == x

\* JavaScript `x || y` on numbers: 0 is falsy.
OrElse(x, y) == IF x = 0 THEN y ELSE x

----------------------------------------------------------------------------
(* modulo11, src/src/boleto.js lines 17-33.                                *)

\* Variant: the weights restart every 9 positions instead of every 8.
RECURSIVE SumFromWrap9(_, _)
SumFromWrap9(digits, i) ==
  IF i >= Len(digits) THEN 0
  ELSE ((i % 9) + 2) * Num(digits[i + 1]) + SumFromWrap9(digits, i + 1)

\* The loop of lines 26-30 over the (already reversed) digits; i is 0-based.
RECURSIVE SumFrom(_, _)
SumFrom(digits, i) ==
  IF i >= Len(digits) THEN 0
  ELSE ((i % 8) + 2) * Num(digits[i + 1]) + SumFrom(digits, i + 1)

\* ret: the value returned; digits: the array `digits` after the call.  When the
\* argument is an Array, `digits` IS the caller's array (line 18 copies the
\* reference, line 24 reverses in place); when it is a string, line 21 makes a
\* fresh array and the caller's string is untouched.  A character that is not
\* numeric makes sum NaN, and `NaN || 1` is 1.
modulo11(chars) ==
  LET digits == reverse(chars)
      isNaN  == \E i \in 1..Len(digits) : digits[i] \notin Numeric
      sum    == SumFrom(digits, 0)
  IN  [ret    |-> IF isNaN THEN 1 ELSE OrElse((11 - (sum % 11)) % 10, 1),
       digits |-> digits]

----------------------------------------------------------------------------
(* Bounds and inputs of the checksum specification.                        *)

MaxLen == 3

FixedTail == <<"2", "3", "4", "5", "6", "7", "8", "9">>

ShortSeqs == UNION {[1..n -> DigitChars] : n \in 1..MaxLen}

\* Short digit sequences, and the same followed by eight fixed digits so that
\* the weights wrap around (<<"1">> \o FixedTail is the documented '123456789').
DigitSeqs == ShortSeqs \cup {s \o FixedTail : s \in ShortSeqs}

Template == <<"3", "4", "1", "9", "5", "0", "0", "0", "0", "8", "0", "1", "2", "3", "3", "2", "0", "3", "1", "8", "9", "6", "4", "2", "2", "1", "4", "7", "0", "0", "0", "4", "5", "8", "4", "4", "1", "0", "0", "0", "0", "0", "0", "2", "0", "0", "0">>

----------------------------------------------------------------------------
(* The Boleto class, src/src/boleto.js lines 35-229.  Each method is an    *)
(* operator of this.bankSlipNumber.                                        *)

SlipLen == 47

\* Variant: only the dots are removed.
stripDotsOnly(s) == SelectSeq(s, LAMBDA c : c # ".")

\* /[^\d]/g replaced by '': the digits of the string, in order (line 43).
stripNonDigits(s) == SelectSeq(s, LAMBDA c : c \in DigitChars)

\* Whether s matches ^\d{47}$, which is what both regular expressions of the
\* class (lines 81 and 103) require of the whole string.
matchesDigits47(s) == Len(s) = SlipLen /\ \A i \in 1..Len(s) : s[i] \in DigitChars

\* Variant: the groups are put back in the order they were read.
barcodeInOrder(bankSlipNumber) ==
  IF matchesDigits47(bankSlipNumber)
  THEN substr(bankSlipNumber, 0, 4) \o substr(bankSlipNumber, 4, 5) \o
       substr(bankSlipNumber, 10, 10) \o substr(bankSlipNumber, 21, 10) \o
       substr(bankSlipNumber, 32, 15)
  ELSE bankSlipNumber

\* Variant: the third group starts one digit early, on the skipped digit.
barcodeEarlyGroup(bankSlipNumber) ==
  IF matchesDigits47(bankSlipNumber)
  THEN substr(bankSlipNumber, 0, 4) \o substr(bankSlipNumber, 32, 15) \o
       substr(bankSlipNumber, 4, 5) \o substr(bankSlipNumber, 9, 10) \o
       substr(bankSlipNumber, 21, 10)
  ELSE bankSlipNumber

\* barcode(), lines 79-84: groups (\d{4})(\d{5})\d(\d{10})\d(\d{10})\d(\d{15})
\* reassembled as $1$5$2$3$4; String.replace returns the string itself when
\* the pattern does not match.
barcode(bankSlipNumber) ==
  IF matchesDigits47(bankSlipNumber)
  THEN LET g1 == substr(bankSlipNumber, 0, 4)
           g2 == substr(bankSlipNumber, 4, 5)
           g3 == substr(bankSlipNumber, 10, 10)
           g4 == substr(bankSlipNumber, 21, 10)
           g5 == substr(bankSlipNumber, 32, 15)
       IN  g1 \o g5 \o g2 \o g3 \o g4
  ELSE bankSlipNumber

\* Variant: the length test of line 61 left out.
validAnyLength(bankSlipNumber) ==
  LET barcodeDigits == barcode(bankSlipNumber)
      sp            == splice1(barcodeDigits, 4)
  IN  <<NumToString(modulo11(sp.rest).ret)>> = sp.removed

\* valid(), lines 60-67.  barcodeDigits is a local array, so the in-place
\* reversal modulo11 performs on it is not visible outside the call.
valid(bankSlipNumber) ==
  IF Len(bankSlipNumber) # SlipLen THEN FALSE
  ELSE LET barcodeDigits == barcode(bankSlipNumber)
           sp            == splice1(barcodeDigits, 4)
           checksum      == sp.removed
       IN  <<NumToString(modulo11(sp.rest).ret)>> = checksum

\* number(), lines 91-93.
numberOf(bankSlipNumber) == bankSlipNumber

\* Variant: no space before the last group.
prettyNumberShortMask(bankSlipNumber) ==
  IF matchesDigits47(bankSlipNumber)
  THEN substr(bankSlipNumber, 0, 5)  \o <<".">> \o substr(bankSlipNumber, 5, 5)  \o <<" ">> \o
       substr(bankSlipNumber, 10, 5) \o <<".">> \o substr(bankSlipNumber, 15, 6) \o <<" ">> \o
       substr(bankSlipNumber, 21, 5) \o <<".">> \o substr(bankSlipNumber, 26, 6) \o <<" ">> \o
       substr(bankSlipNumber, 32, 1) \o substr(bankSlipNumber, 33, 14)
  ELSE bankSlipNumber

\* prettyNumber(), lines 101-106: groups of 5,5,5,6,5,6,1,14 digits joined as
\* '$1.$2 $3.$4 $5.$6 $7 $8'.
prettyNumber(bankSlipNumber) ==
  IF matchesDigits47(bankSlipNumber)
  THEN substr(bankSlipNumber, 0, 5)  \o <<".">> \o substr(bankSlipNumber, 5, 5)  \o <<" ">> \o
       substr(bankSlipNumber, 10, 5) \o <<".">> \o substr(bankSlipNumber, 15, 6) \o <<" ">> \o
       substr(bankSlipNumber, 21, 5) \o <<".">> \o substr(bankSlipNumber, 26, 6) \o <<" ">> \o
       substr(bankSlipNumber, 32, 1) \o <<" ">> \o substr(bankSlipNumber, 33, 14)
  ELSE bankSlipNumber

\* The table of lines 121-144 (names written without their accents).
banks ==
  [k \in {<<"0","0","1">>, <<"0","0","7">>, <<"0","3","3">>, <<"0","6","9">>,
          <<"0","7","7">>, <<"1","0","2">>, <<"1","0","4">>, <<"1","4","0">>,
          <<"1","9","7">>, <<"2","0","8">>, <<"2","1","2">>, <<"2","3","7">>,
          <<"2","6","0">>, <<"3","4","1">>, <<"3","8","9">>, <<"4","2","2">>,
          <<"5","0","5">>, <<"6","3","3">>, <<"6","5","2">>, <<"7","3","5">>,
          <<"7","3","9">>, <<"7","4","5">>} |->
     CASE k = <<"0","0","1">> -> "Banco do Brasil"
       [] k = <<"0","0","7">> -> "BNDES"
       [] k = <<"0","3","3">> -> "Santander"
       [] k = <<"0","6","9">> -> "Crefisa"
       [] k = <<"0","7","7">> -> "Banco Inter"
       [] k = <<"1","0","2">> -> "XP Investimentos"
       [] k = <<"1","0","4">> -> "Caixa Economica Federal"
       [] k = <<"1","4","0">> -> "Easynvest"
       [] k = <<"1","9","7">> -> "Stone"
       [] k = <<"2","0","8">> -> "BTG Pactual"
       [] k = <<"2","1","2">> -> "Banco Original"
       [] k = <<"2","3","7">> -> "Bradesco"
       [] k = <<"2","6","0">> -> "Nu Pagamentos"
       [] k = <<"3","4","1">> -> "Itau"
       [] k = <<"3","8","9">> -> "Banco Mercantil do Brasil"
       [] k = <<"4","2","2">> -> "Banco Safra"
       [] k = <<"5","0","5">> -> "Credit Suisse"
       [] k = <<"6","3","3">> -> "Banco Rendimento"
       [] k = <<"6","5","2">> -> "Itau Unibanco"
       [] k = <<"7","3","5">> -> "Banco Neon"
       [] k = <<"7","3","9">> -> "Banco Cetelem"
       [] k = <<"7","4","5">> -> "Citibank"]

\* bank(), lines 119-148.
bank(bankSlipNumber) ==
  LET code == substr(barcode(bankSlipNumber), 0, 3)
  IN  IF code \in DOMAIN banks THEN banks[code] ELSE "Unknown"

\* currency(), lines 158-163.  The result is tagged with its JavaScript type:
\* an object for the Real, the string 'Unknown' otherwise.
currency(bankSlipNumber) ==
  IF substr(barcode(bankSlipNumber), 3, 1) = <<"9">>
  THEN [type |-> "object", code |-> "BRL", symbol |-> <<"R", "$">>, decimal |-> ","]
  ELSE [type |-> "string", value |-> "Unknown"]

\* checksum(), lines 172-174.
checksum(bankSlipNumber) == substr(barcode(bankSlipNumber), 4, 1)

\* The value of a digit string as a number (days is at most four digits).
RECURSIVE ToNumber(_)
ToNumber(s) == IF s = <<>> THEN 0 ELSE 10 * ToNumber(SubSeq(s, 1, Len(s) - 1)) + Num(s[Len(s)])

\* new Date('1997-10-07').getTime() / 86400000: whole days since 1970-01-01.
RefDateDays == 10141

\* expirationDate(), lines 186-191.  A Date is its time value, counted here in
\* units of 86400000 ms (the code adds days * 86400000 to a multiple of it).
expirationDate(bankSlipNumber) ==
  LET days == substr(barcode(bankSlipNumber), 5, 4)
  IN  RefDateDays + ToNumber(days)

\* A digit string without its leading zeros, "0" when nothing is left.
RECURSIVE dropLeadingZeros(_)
dropLeadingZeros(s) ==
  IF Len(s) <= 1 THEN (IF s = <<>> THEN <<"0">> ELSE s)
  ELSE IF s[1] = "0" THEN dropLeadingZeros(SubSeq(s, 2, Len(s))) ELSE s

\* amount(), lines 198-200: the ten digits divided by 100 and printed with
\* two decimals, i.e. the first eight digits as an integer, '.', the last two.
amount(bankSlipNumber) ==
  LET cents == substr(barcode(bankSlipNumber), 9, 10)
  IN  dropLeadingZeros(substr(cents, 0, 8)) \o <<".">> \o substr(cents, 8, 2)

\* String.prototype.replace(pattern, by) with a one-character string pattern:
\* the first occurrence only.
RECURSIVE replaceFirst(_, _, _)
replaceFirst(s, c, by) ==
  IF s = <<>> THEN <<>>
  ELSE IF s[1] = c THEN <<by>> \o SubSeq(s, 2, Len(s))
  ELSE <<s[1]>> \o replaceFirst(SubSeq(s, 2, Len(s)), c, by)

\* prettyAmount(), lines 207-215.
prettyAmount(bankSlipNumber) ==
  LET cur == currency(bankSlipNumber)
  IN  IF cur.type = "string" THEN amount(bankSlipNumber)
      ELSE cur.symbol \o <<" ">> \o replaceFirst(amount(bankSlipNumber), ".", cur.decimal)

----------------------------------------------------------------------------
(* The collaborators of toSVG.  Their code (./itf, ./svg) is not part of   *)
(* the sources at hand; they are modelled from their documented contract.  *)

Selectors  == {"#boleto", "#missing"}
Resolvable == {"#boleto"}

\* ITF.encode(digits): the stripes are a function of the digits alone; the
\* call fails on non-digit input, and `fails` stands for any other failure
\* the encoder may have.
ITF_encode(digits, fails) ==
  IF fails \/ \E i \in 1..Len(digits) : digits[i] \notin DigitChars
  THEN [ok |-> FALSE, error |-> "InvalidSymbolInput"]
  ELSE [ok |-> TRUE, stripes |-> [encoded |-> digits]]

\* new SVG(stripes).render(selector): draws on the target, returns nothing;
\* fails when the selector resolves to no target.
SVG_render(stripes, selector) ==
  IF selector \in Resolvable
  THEN [ok |-> TRUE, ret |-> "undefined"]
  ELSE [ok |-> FALSE, error |-> "RenderTargetError"]

----------------------------------------------------------------------------
(* Inputs of the Boleto specification: the template number with some of    *)
(* its digits replaced, written in several ways.                           *)

MaxCalls == 3

\* s with the character at 0-based index i replaced by c.
setAt(s, i, c) == [s EXCEPT ![i + 1] = c]

\* Index 32 of the number is index 4 of the barcode (its check digit), index 3
\* is the currency digit.
Numbers == {setAt(setAt(Template, 32, c), 3, k) : c \in DigitChars, k \in {"9", "1"}}

Writings(n) ==
  { n,                                          \* the bare 47 digits
    prettyNumber(n),                            \* the usual mask
    <<"n", ":">> \o n \o <<"-">>,               \* other non-digit characters around
    SubSeq(n, 1, 46),                           \* one digit short
    SubSeq(n, 1, 46) \o <<"x">>,                \* 47 characters, 46 digits
    n \o <<"0">> }                              \* one digit too many

Inputs == UNION {Writings(n) : n \in Numbers} \cup {<<>>}

NoCall == [name |-> "none", ret |-> "undefined"]

BoletoIdle ==
  /\ input = <<>> /\ boleto = <<>> /\ thrown = "none" /\ pc = "idle"
  /\ ncalls = 0 /\ lastCall = NoCall /\ firstRet = <<>>
  /\ svgLog = <<>> /\ svgRaised = "none"

OtherIdle ==
  /\ otherInput = <<>> /\ other = <<>> /\ otherThrown = "none" /\ otherPc = "idle"

ModIdle ==
  /\ number = [kind |-> "string", chars |-> <<>>] /\ original = <<>> /\ results = <<>>

Init ==
  /\ input \in Inputs
  /\ boleto = <<>> /\ thrown = "none" /\ pc = "start"
  /\ ncalls = 0 /\ lastCall = NoCall /\ firstRet = <<>>
  /\ svgLog = <<>> /\ svgRaised = "none"
  /\ otherInput = <<>> /\ other = <<>> /\ otherThrown = "none" /\ otherPc = "start"
  /\ ModIdle

----------------------------------------------------------------------------
(* Actions of the Boleto specification.                                    *)

\* The constructor, lines 42-48, as the outcome `new Boleto(s)` has for its
\* caller: the instance, or the error thrown (and then no instance).
construct(s) ==
  LET bankSlipNumber == stripNonDigits(s)
  IN  IF ~valid(bankSlipNumber)
      THEN [instance |-> <<>>, thrown |-> "Invalid bank slip number"]
      ELSE [instance |-> <<[bankSlipNumber |-> bankSlipNumber]>>, thrown |-> "none"]

\* new Boleto(input)
Construct ==
  /\ pc = "start"
  /\ LET r == construct(input)
     IN  /\ boleto' = r.instance
         /\ thrown' = r.thrown
         /\ pc' = IF r.instance = <<>> THEN "failed" ELSE "live"
  /\ UNCHANGED <<input, ncalls, lastCall, firstRet, svgLog, svgRaised>>
  /\ UNCHANGED otherVars /\ UNCHANGED modVars

\* A call of a method that only reads this.bankSlipNumber and returns ret.
Returns(name, ret) ==
  /\ pc = "live"
  /\ ncalls < MaxCalls
  /\ ncalls' = ncalls + 1
  /\ lastCall' = [name |-> name, ret |-> ret]
  /\ firstRet' = IF name \in DOMAIN firstRet THEN firstRet
                 ELSE [k \in DOMAIN firstRet \cup {name} |->
                         IF k = name THEN ret ELSE firstRet[k]]
  /\ thrown' = "none"
  /\ UNCHANGED <<input, pc, svgLog, svgRaised>>
  /\ UNCHANGED otherVars /\ UNCHANGED modVars

this == boleto[1]

\* Variant: barcode() stores its result in this.bankSlipNumber.
CallBarcodeStoring ==
  /\ Returns("barcode", barcode(this.bankSlipNumber))
  /\ boleto' = <<[bankSlipNumber |-> barcode(this.bankSlipNumber)]>>

CallValid          == Returns("valid", valid(this.bankSlipNumber)) /\ boleto' = boleto
CallBarcode        == Returns("barcode", barcode(this.bankSlipNumber)) /\ boleto' = boleto
CallNumber         == Returns("number", numberOf(this.bankSlipNumber)) /\ boleto' = boleto
CallPrettyNumber   == Returns("prettyNumber", prettyNumber(this.bankSlipNumber)) /\ boleto' = boleto
CallBank           == Returns("bank", bank(this.bankSlipNumber)) /\ boleto' = boleto
CallCurrency       == Returns("currency", currency(this.bankSlipNumber)) /\ boleto' = boleto
CallChecksum       == Returns("checksum", checksum(this.bankSlipNumber)) /\ boleto' = boleto
CallExpirationDate == Returns("expirationDate", expirationDate(this.bankSlipNumber)) /\ boleto' = boleto
CallAmount         == Returns("amount", amount(this.bankSlipNumber)) /\ boleto' = boleto
CallPrettyAmount   == Returns("prettyAmount", prettyAmount(this.bankSlipNumber)) /\ boleto' = boleto

\* Variant: a collaborator's error is caught and replaced by another one.
toSVGWrapping(bankSlipNumber, selector, encoderFails) ==
  LET code == barcode(bankSlipNumber)
      enc  == ITF_encode(code, encoderFails)
      encCall == [op |-> "encode", arg |-> code, result |-> enc]
  IN  IF ~enc.ok
      THEN [log |-> <<encCall>>, raised |-> enc.error, thrown |-> "Could not render",
            ret |-> "undefined"]
      ELSE LET ren == SVG_render(enc.stripes, selector)
               renCall == [op |-> "render", arg |-> enc.stripes, selector |-> selector,
                           result |-> ren]
           IN  IF ~ren.ok
               THEN [log |-> <<encCall, renCall>>, raised |-> ren.error,
                     thrown |-> "Could not render", ret |-> "undefined"]
               ELSE [log |-> <<encCall, renCall>>, raised |-> "none",
                     thrown |-> "none", ret |-> ren.ret]

\* toSVG(selector), lines 225-228: the calls it makes on its collaborators,
\* in order, and what its caller gets (a return value or the error raised).
toSVG(bankSlipNumber, selector, encoderFails) ==
  LET code == barcode(bankSlipNumber)
      enc  == ITF_encode(code, encoderFails)
      encCall == [op |-> "encode", arg |-> code, result |-> enc]
  IN  IF ~enc.ok
      THEN [log |-> <<encCall>>, raised |-> enc.error, thrown |-> enc.error, ret |-> "undefined"]
      ELSE LET ren == SVG_render(enc.stripes, selector)
               renCall == [op |-> "render", arg |-> enc.stripes, selector |-> selector,
                           result |-> ren]
           IN  IF ~ren.ok
               THEN [log |-> <<encCall, renCall>>, raised |-> ren.error,
                     thrown |-> ren.error, ret |-> "undefined"]
               ELSE [log |-> <<encCall, renCall>>, raised |-> "none",
                     thrown |-> "none", ret |-> ren.ret]

CallToSVG ==
  /\ pc = "live"
  /\ ncalls < MaxCalls
  /\ \E selector \in Selectors, encoderFails \in BOOLEAN :
       LET r == toSVG(this.bankSlipNumber, selector, encoderFails)
       IN  /\ svgLog' = r.log
           /\ svgRaised' = r.raised
           /\ thrown' = r.thrown
           /\ lastCall' = [name |-> "toSVG", ret |-> r.ret, selector |-> selector]
  /\ ncalls' = ncalls + 1
  /\ boleto' = boleto
  /\ UNCHANGED <<input, pc, firstRet>>
  /\ UNCHANGED otherVars /\ UNCHANGED modVars

\* new Boleto(b.prettyNumber()) for the live instance b.
Reconstruct ==
  /\ pc = "live"
  /\ otherPc = "start"
  /\ LET s == prettyNumber(this.bankSlipNumber)
         r == construct(s)
     IN  /\ otherInput' = s
         /\ other' = r.instance
         /\ otherThrown' = r.thrown
         /\ otherPc' = IF r.instance = <<>> THEN "failed" ELSE "live"
  /\ UNCHANGED boletoVars /\ UNCHANGED modVars

Next ==
  \/ Construct
  \/ CallValid \/ CallBarcode \/ CallNumber \/ CallPrettyNumber \/ CallBank
  \/ CallCurrency \/ CallChecksum \/ CallExpirationDate \/ CallAmount
  \/ CallPrettyAmount
  \/ CallToSVG
  \/ Reconstruct

Spec == Init /\ [][Next]_vars

----------------------------------------------------------------------------
(* Two independent constructions.                                          *)

\* Indices 9, 20 and 31 are the digits barcode() skips; index 32 is the
\* barcode's check digit.
PairNumbers ==
  {setAt(setAt(setAt(setAt(Template, 32, c), 9, x), 20, y), 31, z) :
     c \in DigitChars, x \in {"0", "6"}, y \in {"8", "3"}, z \in {"4", "1"}}

InitPair ==
  /\ input \in PairNumbers
  /\ otherInput \in PairNumbers
  /\ boleto = <<>> /\ thrown = "none" /\ pc = "start"
  /\ ncalls = 0 /\ lastCall = NoCall /\ firstRet = <<>>
  /\ svgLog = <<>> /\ svgRaised = "none"
  /\ other = <<>> /\ otherThrown = "none" /\ otherPc = "start"
  /\ ModIdle

\* new Boleto(otherInput)
ConstructOther ==
  /\ otherPc = "start"
  /\ LET r == construct(otherInput)
     IN  /\ other' = r.instance
         /\ otherThrown' = r.thrown
         /\ otherPc' = IF r.instance = <<>> THEN "failed" ELSE "live"
  /\ UNCHANGED otherInput
  /\ UNCHANGED boletoVars /\ UNCHANGED modVars

NextPair == Construct \/ ConstructOther

SpecPair == InitPair /\ [][NextPair]_vars

----------------------------------------------------------------------------
(* Calls of modulo11 on one argument.                                      *)

MaxModCalls == 2

InitMod ==
  /\ number \in [kind : {"string", "array"}, chars : DigitSeqs]
  /\ original = number.chars
  /\ results = <<>>
  /\ BoletoIdle /\ OtherIdle

\* modulo11(number) with a string: line 21 splits it into a fresh array.
CallOnString ==
  /\ number.kind = "string"
  /\ Len(results) < MaxModCalls
  /\ results' = Append(results, [arg |-> number.chars, ret |-> modulo11(number.chars).ret])
  /\ UNCHANGED <<number, original>>
  /\ UNCHANGED boletoVars /\ UNCHANGED otherVars

\* modulo11(number) with an Array: line 24 reverses the caller's array.
CallOnArray ==
  /\ number.kind = "array"
  /\ Len(results) < MaxModCalls
  /\ LET r == modulo11(number.chars)
     IN  /\ results' = Append(results, [arg |-> number.chars, ret |-> r.ret])
         /\ number' = [number EXCEPT !.chars = r.digits]
  /\ UNCHANGED original
  /\ UNCHANGED boletoVars /\ UNCHANGED otherVars

NextMod == CallOnString \/ CallOnArray

SpecMod == InitMod /\ [][NextMod]_vars

----------------------------------------------------------------------------
(* Reference definitions used to state the properties.                     *)

\* The digits of a string, in order.
RECURSIVE RefDigits(_)
RefDigits(s) ==
  IF s = <<>> THEN <<>>
  ELSE (IF s[1] \in DigitChars THEN <<s[1]>> ELSE <<>>) \o RefDigits(SubSeq(s, 2, Len(s)))

\* Sum of digit * weight where the digit k places before the last one has
\* weight (k mod 8) + 2; computed from position `from` (1-based) onwards.
RECURSIVE RefSumFrom(_, _)
RefSumFrom(d, from) ==
  IF from > Len(d) THEN 0
  ELSE Num(d[from]) * (((Len(d) - from) % 8) + 2) + RefSumFrom(d, from + 1)

RefSum(d) == RefSumFrom(d, 1)

RefModulo11(d) ==
  LET r == (11 - (RefSum(d) % 11)) % 10
  IN  IF r = 0 THEN 1 ELSE r

\* The index of the bank slip number that index j of the barcode shows
\* (both 0-based): A = 0..3, E = 32..46, B = 4..8, C = 10..19, D = 21..30.
RefSlipIndex(j) ==
  IF j < 4 THEN j
  ELSE IF j < 19 THEN j + 28
  ELSE IF j < 24 THEN j - 15
  ELSE IF j < 34 THEN j - 14
  ELSE j - 13

RefBarcode(n) == [j \in 1..44 |-> n[RefSlipIndex(j - 1) + 1]]

\* The barcode without its index 4, and the digit at its index 4.
RefAccepts(s) ==
  LET d == RefDigits(s)
  IN  /\ Len(d) = 47
      /\ LET b == RefBarcode(d)
         IN  RefModulo11(SubSeq(b, 1, 4) \o SubSeq(b, 6, 44)) = Num(b[5])

\* Number of '.' and ' ' characters of a string.
RefSeparators(s) == Len(SelectSeq(s, LAMBDA c : c \in {".", " "}))

\* The 1-based positions at which two strings of equal length differ.
RefDiff(a, b) == {i \in 1..Len(a) : a[i] # b[i]}

----------------------------------------------------------------------------
(* Properties.                                                             *)

\* C1: construction succeeds exactly when the digits of the input are 47 and
\* modulo 11 of the barcode without its index 4 equals the digit at index 4;
\* otherwise the constructor throws and there is no instance; every instance
\* has a 47-digit bankSlipNumber for which valid() is true.
C1_ConstructIffValid ==
  /\ pc = "live" =>
       /\ RefAccepts(input)
       /\ Len(boleto) = 1
       /\ ncalls = 0 => thrown = "none"
       /\ Len(boleto[1].bankSlipNumber) = 47
       /\ boleto[1].bankSlipNumber = RefDigits(input)
       /\ valid(boleto[1].bankSlipNumber)
  /\ pc = "failed" =>
       /\ ~RefAccepts(input)
       /\ boleto = <<>> /\ thrown = "Invalid bank slip number"
  /\ pc = "start" => boleto = <<>>

\* A masked input with 47 valid digits has been accepted.
C1_Witness ==
  /\ pc = "live" /\ Len(input) = 54 /\ RefSeparators(input) = 7
  /\ Len(boleto[1].bankSlipNumber) = 47

\* C2: every value modulo11 returns is the reference value of its argument
\* (weights (i mod 8) + 2 from the last digit backwards, (11 - sum mod 11)
\* mod 10, 0 replaced by 1); for 1,2,...,9 it is 7.
C2_Modulo11IsReference ==
  /\ \A k \in 1..Len(results) : results[k].ret = RefModulo11(results[k].arg)
  /\ (results # <<>> /\ original = <<"1", "2", "3", "4", "5", "6", "7", "8", "9">>)
       => results[1].ret = 7

C2_Witness ==
  /\ results # <<>>
  /\ original = <<"1", "2", "3", "4", "5", "6", "7", "8", "9">>
  /\ results[1].ret = 7

\* C3: modulo11 returns a value in 1..9, and 1 when the weighted sum is a
\* multiple of 11.
C3_NeverZero ==
  \A k \in 1..Len(results) :
    /\ results[k].ret \in 1..9
    /\ (RefSum(results[k].arg) % 11 = 0) => results[k].ret = 1

\* A positive weighted sum that is a multiple of 11 gave 1.
C3_Witness ==
  /\ results # <<>>
  /\ RefSum(results[1].arg) > 0
  /\ RefSum(results[1].arg) % 11 = 0
  /\ results[1].ret = 1

\* C4 as stated: barcode() slices widths 4,1,5,1,10,1,10,1,15 (a skipped
\* digit after A as well) and returns A + E + B + C + D, 44 digits.
C4_AsStated ==
  (pc = "live" /\ lastCall.name = "barcode") =>
    LET n == boleto[1].bankSlipNumber
        A == substr(n, 0, 4)
        B == substr(n, 5, 5)
        C == substr(n, 11, 10)
        D == substr(n, 22, 10)
        E == substr(n, 33, 15)
    IN  /\ lastCall.ret = A \o E \o B \o C \o D
        /\ Len(lastCall.ret) = 44

\* C4 amended: barcode() slices widths 4,5,1,10,1,10,1,15 (A and B adjacent,
\* one skipped digit after each of B, C and D) and returns A + E + B + C + D,
\* 44 digits.
C4_BarcodeSlices ==
  (pc = "live" /\ lastCall.name = "barcode") =>
    LET n == boleto[1].bankSlipNumber
        A == SubSeq(n, 1, 4)
        B == SubSeq(n, 5, 9)
        C == SubSeq(n, 11, 20)
        D == SubSeq(n, 22, 31)
        E == SubSeq(n, 33, 47)
    IN  /\ lastCall.ret = A \o E \o B \o C \o D
        /\ Len(lastCall.ret) = 44

C4_Witness ==
  /\ pc = "live" /\ lastCall.name = "barcode"
  /\ Len(boleto[1].bankSlipNumber) = 47
  /\ Len(lastCall.ret) = 44

\* C5 as stated: prettyNumber() returns 46 characters plus the separators.
C5_AsStated ==
  (pc = "live" /\ lastCall.name = "prettyNumber") =>
    Len(lastCall.ret) = 46 + RefSeparators(lastCall.ret)

\* C5 amended: prettyNumber() returns 47 characters plus the 7 separators the
\* mask inserts between its 8 groups, 54 in all.
C5_PrettyLength ==
  (pc = "live" /\ lastCall.name = "prettyNumber") =>
    /\ RefSeparators(lastCall.ret) = 7
    /\ Len(lastCall.ret) = 47 + RefSeparators(lastCall.ret)

C5_Witness ==
  /\ pc = "live" /\ lastCall.name = "prettyNumber"
  /\ Len(lastCall.ret) = 54

\* C6: the digits of b.prettyNumber() are b.number(); a Boleto constructed
\* from b.prettyNumber() exists and has the same number() and barcode().
C6_MaskRoundTrip ==
  /\ (pc = "live" /\ lastCall.name = "prettyNumber") =>
       RefDigits(lastCall.ret) = boleto[1].bankSlipNumber
  /\ (pc = "live" /\ otherPc # "start") =>
       /\ RefDigits(otherInput) = boleto[1].bankSlipNumber
       /\ otherPc = "live" /\ Len(other) = 1 /\ otherThrown = "none"
       /\ numberOf(other[1].bankSlipNumber) = numberOf(boleto[1].bankSlipNumber)
       /\ barcode(other[1].bankSlipNumber) = barcode(boleto[1].bankSlipNumber)

C6_Witness ==
  /\ pc = "live" /\ otherPc = "live"
  /\ Len(otherInput) = 54
  /\ other[1].bankSlipNumber = boleto[1].bankSlipNumber

\* C7: whatever methods have been called, bankSlipNumber is the one the
\* constructor stored, valid() is true, and the last accessor call returned what
\* the first call of that accessor returned.
C7_Immutable ==
  pc = "live" =>
    /\ boleto[1].bankSlipNumber = RefDigits(input)
    /\ RefAccepts(boleto[1].bankSlipNumber)
    /\ lastCall.name = "valid" => lastCall.ret = TRUE
    /\ lastCall.name \in DOMAIN firstRet => lastCall.ret = firstRet[lastCall.name]

\* barcode and valid were called, in three calls ending with valid and without
\* toSVG: valid was called again after a first call.
C7_Witness ==
  /\ pc = "live" /\ ncalls = 3 /\ svgLog = <<>>
  /\ DOMAIN firstRet = {"barcode", "valid"}
  /\ lastCall.name = "valid" /\ lastCall.ret = TRUE

\* C8: toSVG calls the encoder on barcode() first, then the renderer with the
\* encoder's stripes and the selector; a failed encoder means no renderer
\* call; the caller gets exactly the error a collaborator raised;
\* bankSlipNumber is the same afterwards.
C8_ToSVGDelegates ==
  (pc = "live" /\ lastCall.name = "toSVG") =>
    /\ Len(svgLog) \in {1, 2}
    /\ svgLog[1].op = "encode"
    /\ svgLog[1].arg = RefBarcode(boleto[1].bankSlipNumber)
    /\ ~svgLog[1].result.ok => (Len(svgLog) = 1 /\ thrown = svgLog[1].result.error)
    /\ svgLog[1].result.ok =>
         /\ Len(svgLog) = 2
         /\ svgLog[2].op = "render"
         /\ svgLog[2].arg = svgLog[1].result.stripes
         /\ svgLog[2].selector = lastCall.selector
         /\ thrown = IF svgLog[2].result.ok THEN "none" ELSE svgLog[2].result.error
    /\ thrown = svgRaised
    /\ boleto[1].bankSlipNumber = RefDigits(input)

\* The renderer failed after the encoder succeeded.
C8_Witness ==
  /\ pc = "live" /\ lastCall.name = "toSVG"
  /\ Len(svgLog) = 2 /\ svgLog[1].result.ok
  /\ thrown = "RenderTargetError"

\* C9 as stated: a call leaves the digit sequence passed to modulo11
\* unchanged, and two calls in a row on the same array return the same value.
C9_AsStated ==
  /\ number.chars = original
  /\ Len(results) >= 2 => results[1].ret = results[2].ret

\* C10: two 47-digit numbers that differ only at indices 9, 20 and 31 are both
\* accepted or both rejected, and when accepted have the same barcode().
C10_CheckDigitsIgnored ==
  (pc # "start" /\ otherPc # "start" /\ RefDiff(input, otherInput) \subseteq {10, 21, 32}) =>
    /\ (pc = "live") <=> (otherPc = "live")
    /\ pc = "live" =>
         barcode(boleto[1].bankSlipNumber) = barcode(other[1].bankSlipNumber)

\* Two accepted numbers that differ at all three skipped positions.
C10_Witness ==
  /\ pc = "live" /\ otherPc = "live"
  /\ RefDiff(input, otherInput) = {10, 21, 32}

====
